---- MODULE Spec2Model ----
(***************************************************************************)
(* A model of ghorg's clone command (cmd/clone.go): CloneAllRepos filters  *)
(* the repository list, creates the destination directory, and runs one    *)
(* closure per repository through a korovkin/limiter ConcurrencyLimiter.   *)
(*                                                                         *)
(* Go strings are sequences of one-character strings, so that Split, Join, *)
(* Contains and HasSuffix are computed the way the code computes them.     *)
(* The closures run as goroutines: every access to a variable they share   *)
(* (err, cloneCount, pulledCount, cloneInfos, cloneErrors) is a step of    *)
(* its own, so that the interleavings of the unsynchronised reads and      *)
(* writes are the behaviours of the model.                                 *)
(***************************************************************************)
EXTENDS Integers, Sequences, FiniteSets, TLC

\* ------------------------------------------------------------------ bounds

\* The longest repository list handed to CloneAllRepos.
MaxRepos == 2

\* The most runs of the command, one after the other, over the same disk.
MaxRuns == 2

\* korovkin/limiter: the limit NewConcurrencyLimiter uses for a limit <= 0.
DefaultLimit == 100

\* ----------------------------------------------------------------- strings

\* strings.Split(s, sep) for a one-character separator.
RECURSIVE Split(_, _)
Split(s, sep) ==
  IF \E k \in 1..Len(s) : s[k] = sep
  THEN LET k == CHOOSE k \in 1..Len(s) :
                  s[k] = sep /\ \A j \in 1..(k - 1) : s[j] # sep
       IN  <<SubSeq(s, 1, k - 1)>> \o Split(SubSeq(s, k + 1, Len(s)), sep)
  ELSE <<s>>

\* strings.Join(parts, sep).
RECURSIVE Join(_, _)
Join(parts, sep) ==
  IF Len(parts) = 0 THEN <<>>
  ELSE IF Len(parts) = 1 THEN parts[1]
  ELSE parts[1] \o sep \o Join(Tail(parts), sep)

\* strings.Contains(s, sub).
Contains(s, sub) ==
  \E k \in 0..(Len(s) - Len(sub)) : SubSeq(s, k + 1, k + Len(sub)) = sub

\* strings.HasSuffix(s, suffix).
HasSuffix(s, suffix) ==
  /\ Len(s) >= Len(suffix)
  /\ SubSeq(s, Len(s) - Len(suffix) + 1, Len(s)) = suffix

\* filepath.Clean on the paths built here: runs of separators collapse to one
\* and a trailing separator is dropped (no "." or ".." element occurs).
RECURSIVE FilepathClean(_)
FilepathClean(p) ==
  IF Len(p) <= 1 THEN p
  ELSE IF p[1] = "/" /\ p[2] = "/" THEN FilepathClean(Tail(p))
  ELSE IF Len(p) = 2 /\ p[2] = "/" THEN <<p[1]>>
  ELSE <<p[1]>> \o FilepathClean(Tail(p))

\* filepath.Join(elems...): the non-empty elements joined by "/" and cleaned.
FilepathJoin(elems) ==
  FilepathClean(Join(SelectSeq(elems, LAMBDA e : e # <<>>), <<"/">>))

\* ------------------------------------------------------- the run's inputs

\* GHORG_ABSOLUTE_PATH_TO_CLONE_TO (with its trailing slash) and parentFolder.
AbsolutePath == <<"/", "r", "/">>
parentFolder == <<"p">>
BackupSuffix == <<"_", "b">>
WikiSuffix == <<".", "w">>

\* The repositories the provider client may return (scm.Repo): a code
\* repository and its wiki alternate; wiki clone URLs end in .w.g.
RepoNames == <<"a", "b", "c", "d">>
Repo(k) ==
  LET name == <<RepoNames[(k + 1) \div 2]>>
      wiki == (k % 2 = 0)
  IN  [URL         |-> <<"o", "/">> \o name \o (IF wiki THEN WikiSuffix ELSE <<>>)
                         \o <<".", "g">>,
       IsWiki      |-> wiki,
       CloneBranch |-> <<"m">>,
       Path        |-> IF wiki THEN <<>> ELSE <<"o", "/">> \o name]

\* The repository lists tried: the sub-lists, in order, of the first MaxRepos
\* repositories.
RECURSIVE SubLists(_)
SubLists(n) ==
  IF n = 0 THEN {<<>>}
  ELSE LET rest == SubLists(n - 1)
       IN  rest \cup {Append(l, Repo(n)) : l \in rest}

\* The same repositories as a provider reports them whose wiki alternate
\* carries the path of its project: the wiki's Path is the code repository's.
ProjectRepo(k) ==
  [Repo(k) EXCEPT !.Path = <<"o", "/">> \o <<RepoNames[(k + 1) \div 2]>>]

RECURSIVE ProjectLists(_)
ProjectLists(n) ==
  IF n = 0 THEN {<<>>}
  ELSE LET rest == ProjectLists(n - 1)
       IN  rest \cup {Append(l, ProjectRepo(n)) : l \in rest}

\* ----------------------------------------------------------- pure functions

getAppNameFromURL(url) ==
  LET withGit == Split(url, "/")
      appName == withGit[Len(withGit)]
      split   == Split(appName, ".")
  IN  Join(SubSeq(split, 1, Len(split) - 1), <<".">>)

\* regexp.MustCompile(regex) panics on a pattern that does not compile; the
\* patterns tried are literals and the unbalanced "(".
RegexCompiles(regex) == regex # <<"(">>

\* re.FindString(s) # "" for a literal pattern.
RegexMatches(regex, s) == regex # <<>> /\ Contains(s, regex)

RECURSIVE filterByRegex(_, _)
filterByRegex(repos, regex) ==
  IF repos = <<>> THEN <<>>
  ELSE (IF RegexMatches(regex, getAppNameFromURL(Head(repos).URL))
        THEN <<Head(repos)>> ELSE <<>>) \o filterByRegex(Tail(repos), regex)

\* The ghorgignore loop of CloneAllRepos: drop every target whose URL contains
\* a line of the file.
filterByIgnore(repos, toIgnore) ==
  SelectSeq(repos, LAMBDA cloned :
      ~ \E k \in 1..Len(toIgnore) : Contains(cloned.URL, toIgnore[k]))

\* readGhorgIgnore as it would be if it kept the empty lines of the file.
readGhorgIgnoreEveryLine(lines) == lines

\* readGhorgIgnore: the non-empty lines of the file.
readGhorgIgnore(lines) == SelectSeq(lines, LAMBDA l : l # <<>>)

getRepoCountOnly(targets) ==
  Cardinality({k \in 1..Len(targets) : ~ targets[k].IsWiki})

\* strconv.Atoi on the values tried: an optional minus sign and one digit.
Digits == <<"0", "1", "2", "3", "4", "5", "6", "7", "8", "9">>
DigitValue(c) == (CHOOSE k \in 1..10 : Digits[k] = c) - 1
IsDigit(c) == \E k \in 1..10 : Digits[k] = c
Atoi(s) ==
  IF Len(s) = 1 /\ IsDigit(s[1])
    THEN [ok |-> TRUE, n |-> DigitValue(s[1])]
  ELSE IF Len(s) = 2 /\ s[1] = "-" /\ IsDigit(s[2])
    THEN [ok |-> TRUE, n |-> 0 - DigitValue(s[2])]
  ELSE [ok |-> FALSE, n |-> 0]

\* limiter.NewConcurrencyLimiter(limit): the number of tickets allocated.
NewConcurrencyLimiter(l) == IF l <= 0 THEN DefaultLimit ELSE l

\* The closure's path resolution: repo.HostPath.
HostPath(repo, preserve, backup) ==
  LET appName == getAppNameFromURL(repo.URL)
      path    == IF repo.Path # <<>> /\ preserve THEN repo.Path ELSE appName
      plain   == FilepathJoin(<<AbsolutePath, parentFolder, <<"/">>, path>>)
      wiki    == IF repo.IsWiki /\ ~ HasSuffix(plain, WikiSuffix)
                 THEN plain \o WikiSuffix ELSE plain
  IN  IF backup
      THEN FilepathJoin(<<AbsolutePath, parentFolder \o BackupSuffix, <<"/">>, path>>)
      ELSE wiki

\* repo.HostPath of every repository a provider may return, in every mode.
HostPathOf ==
  [repo \in {Repo(k) : k \in 1..(2 * Len(RepoNames))}
             \cup {ProjectRepo(k) : k \in 1..(2 * Len(RepoNames))},
   preserve \in BOOLEAN, backup \in BOOLEAN |-> HostPath(repo, preserve, backup)]

\* os.Stat(p) succeeds: p is an entry of the file system or a directory above
\* one.
PathExists(files, p) ==
  \E q \in {FilepathClean(p)} :
    \E f \in files :
      \/ f = q
      \/ /\ Len(f) > Len(q)
         /\ SubSeq(f, 1, Len(q)) = q
         /\ (f[Len(q) + 1] = "/" \/ q = <<"/">>)

\* ------------------------------------------------------------------- state

VARIABLES
  env,           \* the GHORG_* configuration, read-only during the run
  ignoreFile,    \* the ghorgignore file: absent, unreadable, or its lines
  provided,      \* the list CloneAllRepos is called with
  run,           \* the number of this run of the command
  previous,      \* the URLs an earlier run's git.Clone succeeded for
  files,         \* the paths that exist on disk
  cloneTargets,  \* CloneAllRepos' cloneTargets
  pc,            \* where CloneAllRepos' own goroutine is
  exit,          \* how the process ended: "running", "ok", "fatal", "panic"
  printed,       \* what CloneAllRepos printed at its end, in order
  mkdirAllCalls, \* the calls of os.MkdirAll
  limit,         \* the limiter's limit
  tickets,       \* the tickets in the limiter's channel
  waited,        \* the tickets limit.Wait() has received
  submitted,     \* the targets the loop has handed to limit.Execute
  jpc,           \* for each target, where its closure is
  hostPath,      \* for each target, its closure's repo.HostPath
  e,             \* for each target, its closure's message e
  loaded,        \* for each target, what its closure last read of a counter
                 \* or a list it is about to write back
  err,           \* CloneAllRepos' err, shared by the closures
  cloneCount,
  pulledCount,
  cloneInfos,
  cloneErrors,
  gitLog,        \* for each target, the calls its closure made on git.Gitter
  did            \* for each target, what repoExistsLocally told its closure
                 \* and the statements on shared state the closure executed

config == <<env, ignoreFile, provided, run, previous>>
mainVars == <<cloneTargets, pc, exit, printed, mkdirAllCalls, limit, waited,
              submitted>>
sharedVars == <<err, cloneCount, pulledCount, cloneInfos, cloneErrors>>
jobVars == <<jpc, hostPath, e, loaded, gitLog, did>>
vars == <<env, ignoreFile, provided, run, previous, files, cloneTargets, pc, exit, printed,
          mkdirAllCalls, limit, tickets, waited, submitted, jpc, hostPath, e,
          loaded, err, cloneCount, pulledCount, cloneInfos, cloneErrors,
          gitLog, did>>

Jobs == 1..MaxRepos

NoMessage == [URL |-> <<>>, text |-> ""]

\* A closure holds no value read from a counter or a list.
Nothing == [n |-> 0, list |-> <<>>]

\* The values of GHORG_CONCURRENCY tried: a limit of one closure at a time, a
\* limit of two, and the values that are no limit: not a number, zero, negative.
Limits == {<<"1">>, <<"2">>}
NoLimits == {<<"x">>, <<"0">>, <<"-", "1">>}

\* The patterns of GHORG_MATCH_REGEX tried: unset, one that does not compile,
\* and a literal.
RegexValues == {<<>>, <<"(">>, <<"a">>}

\* A ghorgignore file that ignores the wikis.
WikiIgnoreFile == [state |-> "readable", lines |-> << <<>>, <<".", "w">> >>]

\* The ghorgignore files tried.
IgnoreFiles ==
  {[state |-> "absent", lines |-> <<>>], [state |-> "unreadable", lines |-> <<>>],
   [state |-> "readable", lines |-> << <<"b">>, <<>> >>], WikiIgnoreFile}

\* The disks tried for a run: nothing exists, the root directory alone
\* exists, or every target's destination exists.
NoDisk == {}
RootDisk == {FilepathClean(AbsolutePath)}
FullDisk(preserve, backup) == {HostPath(Repo(k), preserve, backup) : k \in Jobs}

Env(regex, dryRun, concurrency, backup, noClean, fetchAll, branch, preserve) ==
  [GHORG_MATCH_REGEX |-> regex, GHORG_DRY_RUN |-> dryRun,
   GHORG_CONCURRENCY |-> concurrency, GHORG_BACKUP |-> backup,
   GHORG_NO_CLEAN |-> noClean, GHORG_FETCH_ALL |-> fetchAll,
   GHORG_BRANCH |-> branch,
   GHORG_PRESERVE_DIRECTORY_STRUCTURE |-> preserve]

NoIgnoreFile == [state |-> "absent", lines |-> <<>>]

Config(environment, ignore, disk) ==
  [env |-> environment, ignoreFile |-> ignore, files |-> disk]

\* Runs that exercise the filters, the dry run and the pre-flight exits, in the
\* default mode and one closure at a time.
PreflightConfigs ==
  {Config(Env(r, d, c, FALSE, FALSE, FALSE, <<>>, FALSE), i, disk) :
      r \in RegexValues, d \in BOOLEAN, c \in {<<"x">>, <<"1">>},
      i \in IgnoreFiles, disk \in {NoDisk, RootDisk}}

\* Runs that clone: no destination exists. GHORG_FETCH_ALL and GHORG_BRANCH
\* decide the closure's steps.
CloneConfigs ==
  {Config(Env(<<>>, FALSE, c, FALSE, FALSE, f, br, FALSE), NoIgnoreFile, NoDisk) :
      c \in Limits, f \in BOOLEAN, br \in {<<>>, <<"m">>}}

\* Runs over destinations that exist, in the backup, no-clean and default
\* modes; in the first two also with the values of GHORG_CONCURRENCY that
\* are no limit, all of which strconv.Atoi or the limiter has to deal with.
ExistingConfig(c, backup, noClean, fetchAll) ==
  Config(Env(<<>>, FALSE, c, backup, noClean, fetchAll, <<>>, FALSE),
         NoIgnoreFile, FullDisk(FALSE, backup))

ExistingConfigs ==
  {ExistingConfig(c, m[1], m[2], FALSE) :
      c \in Limits \cup NoLimits, m \in {<<TRUE, FALSE>>, <<FALSE, TRUE>>}}
    \cup {ExistingConfig(c, FALSE, FALSE, f) : c \in Limits, f \in BOOLEAN}

Configs == PreflightConfigs \cup CloneConfigs \cup ExistingConfigs

\* Runs that keep the provider's directory structure
\* (GHORG_PRESERVE_DIRECTORY_STRUCTURE), with and without GHORG_BACKUP, one
\* closure at a time.
PreserveConfigs ==
  {Config(Env(<<>>, FALSE, <<"1">>, b, FALSE, FALSE, <<>>, TRUE), NoIgnoreFile, NoDisk) :
      b \in BOOLEAN}

\* The first run of the command: CloneAllRepos is entered with one of the
\* configurations and one of the lists.
InitWith(configs, lists) ==
  /\ \E cfg \in configs :
       /\ env = cfg.env
       /\ ignoreFile = cfg.ignoreFile
       /\ files = cfg.files
  /\ provided \in lists
  /\ run = 1
  /\ previous = {}
  /\ cloneTargets = provided
  /\ pc = "regex"
  /\ exit = "running"
  /\ printed = <<>>
  /\ mkdirAllCalls = 0
  /\ limit = 0
  /\ tickets = 0
  /\ waited = 0
  /\ submitted = 0
  /\ jpc = [i \in Jobs |-> "idle"]
  /\ hostPath = [i \in Jobs |-> <<>>]
  /\ e = [i \in Jobs |-> NoMessage]
  /\ loaded = [i \in Jobs |-> Nothing]
  /\ err = "nil"
  /\ cloneCount = 0
  /\ pulledCount = 0
  /\ cloneInfos = <<>>
  /\ cloneErrors = <<>>
  /\ gitLog = [i \in Jobs |-> <<>>]
  /\ did = [i \in Jobs |-> <<>>]

Init ==
  \/ InitWith(Configs, SubLists(MaxRepos))
  \/ InitWith(PreserveConfigs, ProjectLists(MaxRepos))

\* ------------------------------------------- CloneAllRepos' own goroutine

\* os.Exit(1), log.Fatal or a panic: the process ends here.
Terminate(how) ==
  /\ pc' = "exited"
  /\ exit' = how

\* The GHORG_MATCH_REGEX stage. filterByRegex compiles the pattern once per
\* repository, so a bad pattern panics only when there is a repository.
FilterRegex ==
  /\ pc = "regex"
  /\ IF env.GHORG_MATCH_REGEX = <<>>
       THEN /\ pc' = "ignore"
            /\ UNCHANGED <<cloneTargets, exit>>
     ELSE IF cloneTargets # <<>> /\ ~ RegexCompiles(env.GHORG_MATCH_REGEX)
       THEN /\ Terminate("panic")
            /\ UNCHANGED cloneTargets
     ELSE /\ cloneTargets' = filterByRegex(cloneTargets, env.GHORG_MATCH_REGEX)
          /\ pc' = "ignore"
          /\ UNCHANGED exit
  /\ UNCHANGED <<config, files, printed, mkdirAllCalls, limit, tickets, waited,
                 submitted, sharedVars, jobVars>>

\* The ghorgignore stage.
FilterIgnore ==
  /\ pc = "ignore"
  /\ IF ignoreFile.state = "absent"
       THEN /\ pc' = "dryrun"
            /\ UNCHANGED <<cloneTargets, exit>>
     ELSE IF ignoreFile.state = "unreadable"
       THEN /\ Terminate("fatal")
            /\ UNCHANGED cloneTargets
     ELSE /\ cloneTargets' = filterByIgnore(cloneTargets, readGhorgIgnore(ignoreFile.lines))
          /\ pc' = "dryrun"
          /\ UNCHANGED exit
  /\ UNCHANGED <<config, files, printed, mkdirAllCalls, limit, tickets, waited,
                 submitted, sharedVars, jobVars>>

\* printDryRun and the return that follows it.
printDryRun ==
  /\ pc = "dryrun"
  /\ env.GHORG_DRY_RUN
  /\ printed' = Append(printed, [what |-> "dryrun", count |-> Len(cloneTargets)])
  /\ pc' = "exited"
  /\ exit' = "ok"
  /\ UNCHANGED <<config, files, cloneTargets, mkdirAllCalls, limit, tickets,
                 waited, submitted, sharedVars, jobVars>>

\* createDirIfNotExist as it would be if the dry run did not return before
\* it.
createDirInDryRun ==
  /\ pc = "dryrun"
  /\ IF ~ PathExists(files, AbsolutePath \o parentFolder)
       THEN /\ files' = files \cup {FilepathClean(AbsolutePath)}
            /\ mkdirAllCalls' = mkdirAllCalls + 1
       ELSE UNCHANGED <<files, mkdirAllCalls>>
  /\ pc' = "atoi"
  /\ UNCHANGED <<config, cloneTargets, exit, printed, limit, tickets, waited,
                 submitted, sharedVars, jobVars>>

createDirIfNotExist ==
  /\ pc = "dryrun"
  /\ ~ env.GHORG_DRY_RUN
  /\ IF ~ PathExists(files, AbsolutePath \o parentFolder)
       THEN /\ files' = files \cup {FilepathClean(AbsolutePath)}
            /\ mkdirAllCalls' = mkdirAllCalls + 1
       ELSE UNCHANGED <<files, mkdirAllCalls>>
  /\ pc' = "atoi"
  /\ UNCHANGED <<config, cloneTargets, exit, printed, limit, tickets, waited,
                 submitted, sharedVars, jobVars>>

\* strconv.Atoi(GHORG_CONCURRENCY), log.Fatal on its error, and
\* limiter.NewConcurrencyLimiter(l).
ParseConcurrency ==
  /\ pc = "atoi"
  /\ LET l == Atoi(env.GHORG_CONCURRENCY)
     IN  IF ~ l.ok
           THEN /\ Terminate("fatal")
                /\ err' = "error"
                /\ UNCHANGED <<limit, tickets>>
         ELSE /\ limit' = NewConcurrencyLimiter(l.n)
              /\ tickets' = NewConcurrencyLimiter(l.n)
              /\ err' = "nil"
              /\ pc' = "submit"
              /\ UNCHANGED exit
  /\ UNCHANGED <<config, files, cloneTargets, printed, mkdirAllCalls, waited,
                 submitted, cloneCount, pulledCount, cloneInfos, cloneErrors,
                 jobVars>>

\* Execute as it would be if it started the closure without taking a ticket.
ExecuteWithoutTicket ==
  /\ pc = "submit"
  /\ submitted < Len(cloneTargets)
  /\ submitted' = submitted + 1
  /\ jpc' = [jpc EXCEPT ![submitted + 1] = "resolve"]
  /\ UNCHANGED <<config, files, cloneTargets, pc, exit, printed, mkdirAllCalls,
                 limit, tickets, waited, sharedVars, hostPath, e, loaded, gitLog,
                 did>>

\* Execute as it would be if it started a closure only when no other closure
\* is running.
ExecuteWhenIdle ==
  /\ pc = "submit"
  /\ submitted < Len(cloneTargets)
  /\ tickets = limit
  /\ tickets' = tickets - 1
  /\ submitted' = submitted + 1
  /\ jpc' = [jpc EXCEPT ![submitted + 1] = "resolve"]
  /\ UNCHANGED <<config, files, cloneTargets, pc, exit, printed, mkdirAllCalls,
                 limit, waited, sharedVars, hostPath, e, loaded, gitLog, did>>

\* One iteration of the loop over cloneTargets: limit.Execute takes a ticket,
\* blocking until there is one, and starts the closure as a goroutine.
Execute ==
  /\ pc = "submit"
  /\ submitted < Len(cloneTargets)
  /\ tickets > 0
  /\ tickets' = tickets - 1
  /\ submitted' = submitted + 1
  /\ jpc' = [jpc EXCEPT ![submitted + 1] = "resolve"]
  /\ UNCHANGED <<config, files, cloneTargets, pc, exit, printed, mkdirAllCalls,
                 limit, waited, sharedVars, hostPath, e, loaded, gitLog, did>>

\* Wait as it would be if it returned on the first ticket it receives.
WaitForOneTicket ==
  /\ pc \in {"submit", "wait"}
  /\ submitted = Len(cloneTargets)
  /\ tickets > 0
  /\ waited' = waited + 1
  /\ tickets' = tickets - 1
  /\ pc' = "report"
  /\ UNCHANGED <<config, files, cloneTargets, exit, printed, mkdirAllCalls,
                 limit, submitted, sharedVars, jobVars>>

\* limit.Wait(): receive limit tickets. The receives that do not block are
\* taken together.
Wait ==
  /\ pc \in {"submit", "wait"}
  /\ submitted = Len(cloneTargets)
  /\ tickets > 0
  /\ waited' = waited + tickets
  /\ tickets' = 0
  /\ pc' = IF waited + tickets = limit THEN "report" ELSE "wait"
  /\ UNCHANGED <<config, files, cloneTargets, exit, printed, mkdirAllCalls,
                 limit, submitted, sharedVars, jobVars>>

printRemainingMessages ==
  /\ pc = "report"
  /\ printed' = Append(printed, [what |-> "report", infos |-> cloneInfos,
                                 errors |-> cloneErrors])
  /\ pc' = "summary"
  /\ UNCHANGED <<config, files, cloneTargets, exit, mkdirAllCalls, limit,
                 tickets, waited, submitted, sharedVars, jobVars>>

\* The "New repos cloned ..., existing repos pulled ..." line and the return.
PrintSummary ==
  /\ pc = "summary"
  /\ printed' = Append(printed, [what |-> "summary", cloned |-> cloneCount,
                                 pulled |-> pulledCount])
  /\ pc' = "exited"
  /\ exit' = "ok"
  /\ UNCHANGED <<config, files, cloneTargets, mkdirAllCalls, limit, tickets,
                 waited, submitted, sharedVars, jobVars>>

\* ------------------------------------------------------------ the closures

\* A call of a git.Gitter method by target i's closure, and its result.
Call(i, op, ok) ==
  gitLog' = [gitLog EXCEPT ![i] = Append(@, [op |-> op, ok |-> ok])]

Goto(i, label) == jpc' = [jpc EXCEPT ![i] = label]

\* e := fmt.Sprintf(...), followed by the append to list.
Message(i, text, list) ==
  /\ e' = [e EXCEPT ![i] = [URL |-> cloneTargets[i].URL, text |-> text]]
  /\ Goto(i, list)

Did(i, what) == did' = [did EXCEPT ![i] = Append(@, what)]

\* The return as it would be if the closure's ticket did not come back.
ReturnKeepingTicket(i) ==
  /\ Goto(i, "done")
  /\ tickets' = tickets

\* The closure returns; the limiter's deferred function puts its ticket back.
Return(i) ==
  /\ Goto(i, "done")
  /\ tickets' = tickets + 1

\* The closure as it would be if it cloned without asking repoExistsLocally.
ResolveAlwaysClone(i) ==
  /\ jpc[i] = "resolve"
  /\ hostPath' = [hostPath EXCEPT ![i] =
        HostPath(cloneTargets[i], env.GHORG_PRESERVE_DIRECTORY_STRUCTURE,
                 env.GHORG_BACKUP)]
  /\ Did(i, "!repoExistsLocally")
  /\ Goto(i, "Clone")
  /\ UNCHANGED <<config, files, mainVars, tickets, sharedVars, e, loaded,
                 gitLog>>

\* The closure as it would be if it captured the loop's variable target, not
\* the copy repo: it resolves the path of the list's last target.
ResolveLastTarget(i) ==
  /\ jpc[i] = "resolve"
  /\ \E hp \in {HostPath(cloneTargets[Len(cloneTargets)],
                          env.GHORG_PRESERVE_DIRECTORY_STRUCTURE, env.GHORG_BACKUP)} :
         /\ hostPath' = [hostPath EXCEPT ![i] = hp]
         /\ Did(i, IF PathExists(files, hp) THEN "repoExistsLocally"
                   ELSE "!repoExistsLocally")
         /\ IF PathExists(files, hp)
              THEN IF env.GHORG_BACKUP THEN Goto(i, "UpdateRemote")
                   ELSE IF env.GHORG_NO_CLEAN THEN Goto(i, "FetchAllNoClean")
                   ELSE Goto(i, "Checkout")
            ELSE Goto(i, "Clone")
  /\ UNCHANGED <<config, files, mainVars, tickets, sharedVars, e, loaded,
                 gitLog>>

\* Path resolution and the repoExistsLocally / mode branch.
Resolve(i) ==
  /\ jpc[i] = "resolve"
  /\ \E hp \in {HostPathOf[cloneTargets[i], env.GHORG_PRESERVE_DIRECTORY_STRUCTURE,
                            env.GHORG_BACKUP]} :
         /\ hostPath' = [hostPath EXCEPT ![i] = hp]
         /\ Did(i, IF PathExists(files, hp) THEN "repoExistsLocally"
                   ELSE "!repoExistsLocally")
         /\ IF PathExists(files, hp)
              THEN IF env.GHORG_BACKUP THEN Goto(i, "UpdateRemote")
                   ELSE IF env.GHORG_NO_CLEAN THEN Goto(i, "FetchAllNoClean")
                   ELSE Goto(i, "Checkout")
            ELSE Goto(i, "Clone")
  /\ UNCHANGED <<config, files, mainVars, tickets, sharedVars, e, loaded,
                 gitLog>>

\* UpdateRemote as it would be if a backup that is brought up to date counted
\* as a pull.
UpdateRemoteCountedAsPull(i) ==
  /\ jpc[i] = "UpdateRemote"
  /\ \E ok \in BOOLEAN :
       /\ Call(i, "UpdateRemote", ok)
       /\ IF ok THEN Goto(i, "pulledCount") /\ UNCHANGED e
          ELSE IF cloneTargets[i].IsWiki
            THEN Message(i, "Wiki may be enabled", "cloneInfos")
          ELSE Message(i, "Could not update remotes", "cloneErrors")
  /\ UNCHANGED <<config, files, mainVars, tickets, sharedVars, hostPath, loaded,
                 did>>

\* The calls whose err is the closure's own.
UpdateRemote(i) ==
  /\ jpc[i] = "UpdateRemote"
  /\ \E ok \in BOOLEAN :
       /\ Call(i, "UpdateRemote", ok)
       /\ IF ok THEN Goto(i, "Success") /\ UNCHANGED e
          ELSE IF cloneTargets[i].IsWiki
            THEN Message(i, "Wiki may be enabled", "cloneInfos")
          ELSE Message(i, "Could not update remotes", "cloneErrors")
  /\ UNCHANGED <<config, files, mainVars, tickets, sharedVars, hostPath, loaded,
                 did>>

FetchAllNoClean(i) ==
  /\ jpc[i] = "FetchAllNoClean"
  /\ \E ok \in BOOLEAN :
       /\ Call(i, "FetchAll", ok)
       /\ IF ok THEN Goto(i, "Success") /\ UNCHANGED e
          ELSE IF cloneTargets[i].IsWiki
            THEN Message(i, "Wiki may be enabled", "cloneInfos")
          ELSE Message(i, "Could not fetch remotes", "cloneErrors")
  /\ UNCHANGED <<config, files, mainVars, tickets, sharedVars, hostPath, loaded,
                 did>>

\* Checkout as it would be if its failure were classified like the failure
\* of Clean, Reset and Pull.
CheckoutFailureAsError(i) ==
  /\ jpc[i] = "Checkout"
  /\ \E ok \in BOOLEAN :
       /\ Call(i, "Checkout", ok)
       /\ IF ok THEN Goto(i, "Clean") /\ UNCHANGED e
          ELSE Message(i, "Could not checkout", "cloneErrors")
  /\ UNCHANGED <<config, files, mainVars, tickets, sharedVars, hostPath, loaded,
                 did>>

Checkout(i) ==
  /\ jpc[i] = "Checkout"
  /\ \E ok \in BOOLEAN :
       /\ Call(i, "Checkout", ok)
       /\ IF ok THEN Goto(i, "Clean") /\ UNCHANGED e
          ELSE Message(i, "Could not checkout", "cloneInfos")
  /\ UNCHANGED <<config, files, mainVars, tickets, sharedVars, hostPath, loaded,
                 did>>

Clean(i) ==
  /\ jpc[i] = "Clean"
  /\ \E ok \in BOOLEAN :
       /\ Call(i, "Clean", ok)
       /\ IF ok THEN Goto(i, "Reset") /\ UNCHANGED e
          ELSE Message(i, "Problem running git clean", "cloneErrors")
  /\ UNCHANGED <<config, files, mainVars, tickets, sharedVars, hostPath, loaded,
                 did>>

Reset(i) ==
  /\ jpc[i] = "Reset"
  /\ \E ok \in BOOLEAN :
       /\ Call(i, "Reset", ok)
       /\ IF ok THEN Goto(i, "Pull") /\ UNCHANGED e
          ELSE Message(i, "Problem resetting", "cloneErrors")
  /\ UNCHANGED <<config, files, mainVars, tickets, sharedVars, hostPath, loaded,
                 did>>

Pull(i) ==
  /\ jpc[i] = "Pull"
  /\ \E ok \in BOOLEAN :
       /\ Call(i, "Pull", ok)
       /\ IF ok THEN Goto(i, "pulledCount") /\ UNCHANGED e
          ELSE Message(i, "Problem trying to pull", "cloneErrors")
  /\ UNCHANGED <<config, files, mainVars, tickets, sharedVars, hostPath, loaded,
                 did>>

\* pulledCount++ is a read and a write of the shared counter.
PulledCountLoad(i) ==
  /\ jpc[i] = "pulledCount"
  /\ loaded' = [loaded EXCEPT ![i].n = pulledCount]
  /\ Goto(i, "pulledCount++")
  /\ UNCHANGED <<config, files, mainVars, tickets, sharedVars, hostPath, e,
                 gitLog, did>>

PulledCountStore(i) ==
  /\ jpc[i] = "pulledCount++"
  /\ pulledCount' = loaded[i].n + 1
  /\ loaded' = [loaded EXCEPT ![i] = Nothing]
  /\ Did(i, "pulledCount++")
  /\ IF env.GHORG_FETCH_ALL THEN Goto(i, "FetchAllAfterPull")
     ELSE Goto(i, "Success")
  /\ UNCHANGED <<config, files, mainVars, tickets, err, cloneCount, cloneInfos,
                 cloneErrors, hostPath, e, gitLog>>

FetchAllAfterPull(i) ==
  /\ jpc[i] = "FetchAllAfterPull"
  /\ \E ok \in BOOLEAN :
       /\ Call(i, "FetchAll", ok)
       /\ IF ok THEN Goto(i, "Success") /\ UNCHANGED e
          ELSE Message(i, "Could not fetch remotes", "cloneErrors")
  /\ UNCHANGED <<config, files, mainVars, tickets, sharedVars, hostPath, loaded,
                 did>>

\* The calls of the clone branch assign CloneAllRepos' err, the variable every
\* closure captures: the call and the assignment are one step, each later read
\* of err another. A clone that succeeds creates repo.HostPath.
Clone(i) ==
  /\ jpc[i] = "Clone"
  /\ \E ok \in BOOLEAN :
       /\ Call(i, "Clone", ok)
       /\ err' = IF ok THEN "nil" ELSE "error"
       /\ files' = IF ok THEN files \cup {hostPath[i]} ELSE files
  /\ Goto(i, "Clone err wiki")
  /\ UNCHANGED <<config, mainVars, tickets, cloneCount, pulledCount, cloneInfos,
                 cloneErrors, hostPath, e, loaded, did>>

\* if err != nil && repo.IsWiki
CloneErrWiki(i) ==
  /\ jpc[i] = "Clone err wiki"
  /\ IF err # "nil" /\ cloneTargets[i].IsWiki
       THEN Message(i, "Wiki may be enabled", "cloneInfos")
     ELSE Goto(i, "Clone err") /\ UNCHANGED e
  /\ UNCHANGED <<config, files, mainVars, tickets, sharedVars, hostPath, loaded,
                 gitLog, did>>

\* if err != nil, and the GHORG_BRANCH test after it
CloneErr(i) ==
  /\ jpc[i] = "Clone err"
  /\ IF err # "nil"
       THEN Message(i, "Problem trying to clone", "cloneErrors")
     ELSE /\ IF env.GHORG_BRANCH # <<>> THEN Goto(i, "CheckoutAfterClone")
             ELSE Goto(i, "cloneCount")
          /\ UNCHANGED e
  /\ UNCHANGED <<config, files, mainVars, tickets, sharedVars, hostPath, loaded,
                 gitLog, did>>

\* err := git.Checkout(repo): this err is the closure's own.
CheckoutAfterClone(i) ==
  /\ jpc[i] = "CheckoutAfterClone"
  /\ \E ok \in BOOLEAN :
       /\ Call(i, "Checkout", ok)
       /\ IF ok THEN Goto(i, "cloneCount") /\ UNCHANGED e
          ELSE Message(i, "Could not checkout", "cloneInfos")
  /\ UNCHANGED <<config, files, mainVars, tickets, sharedVars, hostPath, loaded,
                 did>>

\* cloneCount++ is a read and a write of the shared counter.
CloneCountLoad(i) ==
  /\ jpc[i] = "cloneCount"
  /\ loaded' = [loaded EXCEPT ![i].n = cloneCount]
  /\ Goto(i, "cloneCount++")
  /\ UNCHANGED <<config, files, mainVars, tickets, sharedVars, hostPath, e,
                 gitLog, did>>

CloneCountStore(i) ==
  /\ jpc[i] = "cloneCount++"
  /\ cloneCount' = loaded[i].n + 1
  /\ loaded' = [loaded EXCEPT ![i] = Nothing]
  /\ Did(i, "cloneCount++")
  /\ Goto(i, "SetOrigin")
  /\ UNCHANGED <<config, files, mainVars, tickets, err, pulledCount, cloneInfos,
                 cloneErrors, hostPath, e, gitLog>>

SetOrigin(i) ==
  /\ jpc[i] = "SetOrigin"
  /\ \E ok \in BOOLEAN :
       /\ Call(i, "SetOrigin", ok)
       /\ err' = IF ok THEN "nil" ELSE "error"
  /\ Goto(i, "SetOrigin err")
  /\ UNCHANGED <<config, files, mainVars, tickets, cloneCount, pulledCount,
                 cloneInfos, cloneErrors, hostPath, e, loaded, did>>

SetOriginErr(i) ==
  /\ jpc[i] = "SetOrigin err"
  /\ IF err # "nil"
       THEN Message(i, "Problem trying to set remote", "cloneErrors")
     ELSE /\ IF env.GHORG_FETCH_ALL THEN Goto(i, "FetchAllAfterClone")
             ELSE Goto(i, "Success")
          /\ UNCHANGED e
  /\ UNCHANGED <<config, files, mainVars, tickets, sharedVars, hostPath, loaded,
                 gitLog, did>>

FetchAllAfterClone(i) ==
  /\ jpc[i] = "FetchAllAfterClone"
  /\ \E ok \in BOOLEAN :
       /\ Call(i, "FetchAll", ok)
       /\ err' = IF ok THEN "nil" ELSE "error"
  /\ Goto(i, "FetchAll err")
  /\ UNCHANGED <<config, files, mainVars, tickets, cloneCount, pulledCount,
                 cloneInfos, cloneErrors, hostPath, e, loaded, did>>

FetchAllErr(i) ==
  /\ jpc[i] = "FetchAll err"
  /\ IF err # "nil"
       THEN Message(i, "Could not fetch remotes", "cloneErrors")
     ELSE Goto(i, "Success") /\ UNCHANGED e
  /\ UNCHANGED <<config, files, mainVars, tickets, sharedVars, hostPath, loaded,
                 gitLog, did>>

\* cloneInfos = append(cloneInfos, e) is a read and a write of the shared
\* slice; the return follows.
CloneInfosLoad(i) ==
  /\ jpc[i] = "cloneInfos"
  /\ loaded' = [loaded EXCEPT ![i].list = cloneInfos]
  /\ Goto(i, "cloneInfos=")
  /\ UNCHANGED <<config, files, mainVars, tickets, sharedVars, hostPath, e,
                 gitLog, did>>

CloneInfosStore(i) ==
  /\ jpc[i] = "cloneInfos="
  /\ cloneInfos' = Append(loaded[i].list, e[i])
  /\ loaded' = [loaded EXCEPT ![i] = Nothing]
  /\ Did(i, "cloneInfos")
  /\ Return(i)
  /\ UNCHANGED <<config, files, mainVars, err, cloneCount, pulledCount,
                 cloneErrors, hostPath, e, gitLog>>

CloneErrorsLoad(i) ==
  /\ jpc[i] = "cloneErrors"
  /\ loaded' = [loaded EXCEPT ![i].list = cloneErrors]
  /\ Goto(i, "cloneErrors=")
  /\ UNCHANGED <<config, files, mainVars, tickets, sharedVars, hostPath, e,
                 gitLog, did>>

\* The append to cloneErrors as it would be without the return after it: the
\* closure goes on to print Success.
CloneErrorsStoreAndGoOn(i) ==
  /\ jpc[i] = "cloneErrors="
  /\ cloneErrors' = Append(loaded[i].list, e[i])
  /\ loaded' = [loaded EXCEPT ![i] = Nothing]
  /\ Did(i, "cloneErrors")
  /\ Goto(i, "Success")
  /\ UNCHANGED <<config, files, mainVars, tickets, err, cloneCount, pulledCount,
                 cloneInfos, hostPath, e, gitLog>>

CloneErrorsStore(i) ==
  /\ jpc[i] = "cloneErrors="
  /\ cloneErrors' = Append(loaded[i].list, e[i])
  /\ loaded' = [loaded EXCEPT ![i] = Nothing]
  /\ Did(i, "cloneErrors")
  /\ Return(i)
  /\ UNCHANGED <<config, files, mainVars, err, cloneCount, pulledCount,
                 cloneInfos, hostPath, e, gitLog>>

\* colorlog.PrintSuccess("Success " + action + ...) and the return.
Success(i) ==
  /\ jpc[i] = "Success"
  /\ Did(i, "Success")
  /\ Return(i)
  /\ UNCHANGED <<config, files, mainVars, sharedVars, hostPath, e, loaded,
                 gitLog>>

Closure(i) ==
  \/ Resolve(i)
  \/ UpdateRemote(i)
  \/ FetchAllNoClean(i)
  \/ Checkout(i)
  \/ Clean(i)
  \/ Reset(i)
  \/ Pull(i)
  \/ PulledCountLoad(i)
  \/ PulledCountStore(i)
  \/ FetchAllAfterPull(i)
  \/ Clone(i)
  \/ CloneErrWiki(i)
  \/ CloneErr(i)
  \/ CheckoutAfterClone(i)
  \/ CloneCountLoad(i)
  \/ CloneCountStore(i)
  \/ SetOrigin(i)
  \/ SetOriginErr(i)
  \/ FetchAllAfterClone(i)
  \/ FetchAllErr(i)
  \/ CloneInfosLoad(i)
  \/ CloneInfosStore(i)
  \/ CloneErrorsLoad(i)
  \/ CloneErrorsStore(i)
  \/ Success(i)

Next ==
  \/ FilterRegex
  \/ FilterIgnore
  \/ printDryRun
  \/ createDirIfNotExist
  \/ ParseConcurrency
  \/ Execute
  \/ Wait
  \/ printRemainingMessages
  \/ PrintSummary
  \/ \E i \in Jobs : Closure(i)

Spec == Init /\ [][Next]_vars

\* ------------------------------------------------------- fair scheduling

\* The steps of CloneAllRepos' own goroutine.
MainGoroutine ==
  \/ FilterRegex
  \/ FilterIgnore
  \/ printDryRun
  \/ createDirIfNotExist
  \/ ParseConcurrency
  \/ Execute
  \/ Wait
  \/ printRemainingMessages
  \/ PrintSummary

\* The Go scheduler lets every goroutine that can take a step take one: the
\* main goroutine and each closure.
Fairness ==
  /\ WF_vars(MainGoroutine)
  /\ \A i \in Jobs : WF_vars(Closure(i))

\* The runs followed to their end under fair scheduling. One closure at a
\* time: the filters and the dry run, the clone branch with GHORG_BRANCH and
\* GHORG_FETCH_ALL, and the three modes over existing destinations. Two at a
\* time, or as many as the limiter's default allows: the plain clone branch
\* and the backup mode.
LiveConfigs ==
  {Config(Env(r, d, <<"1">>, FALSE, FALSE, FALSE, <<>>, FALSE), i, NoDisk) :
      r \in {<<>>, <<"a">>}, d \in BOOLEAN, i \in {NoIgnoreFile, WikiIgnoreFile}}
    \cup {Config(Env(<<>>, FALSE, <<"1">>, FALSE, FALSE, TRUE, <<"m">>, FALSE),
                  NoIgnoreFile, NoDisk),
           Config(Env(<<>>, FALSE, <<"2">>, FALSE, FALSE, FALSE, <<>>, FALSE),
                  NoIgnoreFile, NoDisk),
           ExistingConfig(<<"1">>, FALSE, TRUE, FALSE),
           ExistingConfig(<<"1">>, FALSE, FALSE, TRUE)}
    \cup {ExistingConfig(c, TRUE, FALSE, FALSE) : c \in Limits \cup {<<"0">>}}

InitLive == InitWith(LiveConfigs, SubLists(MaxRepos))

SpecFair == InitLive /\ [][Next]_vars /\ Fairness

\* The positions of a closure at which its next step is a call of git.Gitter.
GitCalls ==
  {"UpdateRemote", "FetchAllNoClean", "Checkout", "Clean", "Reset", "Pull",
   "FetchAllAfterPull", "Clone", "CheckoutAfterClone", "SetOrigin",
   "FetchAllAfterClone"}

\* A call of git.Gitter by target i's closure that never returns: the closure
\* stays in it. At most one call of a run hangs.
Hang(i) ==
  /\ jpc[i] \in GitCalls
  /\ \A j \in Jobs : jpc[j] # "hung"
  /\ Goto(i, "hung")
  /\ UNCHANGED <<config, files, mainVars, tickets, sharedVars, hostPath, e,
                 loaded, gitLog, did>>

NextHang == Next \/ \E i \in Jobs : Hang(i)

SpecHang == InitLive /\ [][NextHang]_vars /\ Fairness

\* ----------------------------------------------------- one run after another

\* The command is run again with the same configuration, the same list and
\* the disk as the run before left it: CloneAllRepos starts afresh.
Rerun ==
  /\ pc = "exited"
  /\ exit = "ok"
  /\ run < MaxRuns
  /\ run' = run + 1
  /\ previous' = previous \cup
       {cloneTargets[i].URL : i \in
          {j \in 1..Len(cloneTargets) : \E k \in 1..Len(gitLog[j]) :
                gitLog[j][k] = [op |-> "Clone", ok |-> TRUE]}}
  /\ cloneTargets' = provided
  /\ pc' = "regex"
  /\ exit' = "running"
  /\ printed' = <<>>
  /\ mkdirAllCalls' = 0
  /\ limit' = 0
  /\ tickets' = 0
  /\ waited' = 0
  /\ submitted' = 0
  /\ jpc' = [i \in Jobs |-> "idle"]
  /\ hostPath' = [i \in Jobs |-> <<>>]
  /\ e' = [i \in Jobs |-> NoMessage]
  /\ loaded' = [i \in Jobs |-> Nothing]
  /\ err' = "nil"
  /\ cloneCount' = 0
  /\ pulledCount' = 0
  /\ cloneInfos' = <<>>
  /\ cloneErrors' = <<>>
  /\ gitLog' = [i \in Jobs |-> <<>>]
  /\ did' = [i \in Jobs |-> <<>>]
  /\ UNCHANGED <<env, ignoreFile, provided, files>>

\* Runs that start on an empty disk for the second run to find what the first
\* one cloned: every mode one closure at a time, the default mode also two at
\* a time.
RerunConfigs ==
  PreflightConfigs \cup
  {Config(Env(<<>>, FALSE, c, m[1], m[2], f, br, FALSE), NoIgnoreFile, NoDisk) :
      c \in {<<"1">>}, m \in {<<FALSE, FALSE>>, <<TRUE, FALSE>>, <<FALSE, TRUE>>},
      f \in BOOLEAN, br \in {<<>>, <<"m">>}}
  \cup {Config(Env(<<>>, FALSE, <<"2">>, FALSE, FALSE, FALSE, <<>>, FALSE),
                NoIgnoreFile, NoDisk)}

InitRerun == InitWith(RerunConfigs, SubLists(MaxRepos))

NextRerun == Next \/ Rerun

SpecRerun == InitRerun /\ [][NextRerun]_vars

\* ------------------------------------------------- vocabulary of the claims

Range(s) == {s[k] : k \in 1..Len(s)}

Count(s, x) == Cardinality({k \in 1..Len(s) : s[k] = x})

\* The targets that survived the filters.
Targets == 1..Len(cloneTargets)

\* The closures that have started and not returned.
InFlight == {i \in Jobs : jpc[i] \notin {"idle", "done"}}

\* The methods of git.Gitter target i's closure has called, in order.
Ops(i) == [k \in 1..Len(gitLog[i]) |-> gitLog[i][k].op]

\* A call of op by target i's closure failed.
Failed(i, op) == \E k \in 1..Len(gitLog[i]) : gitLog[i][k] = [op |-> op, ok |-> FALSE]

IsPrefix(s, t) == Len(s) <= Len(t) /\ SubSeq(t, 1, Len(s)) = s

\* limit.Wait() has returned.
Drained == pc \in {"report", "summary"} \/ (pc = "exited" /\ exit = "ok" /\ ~ env.GHORG_DRY_RUN)

\* The Info/Issues report or the summary line has been printed.
Reported == \E k \in 1..Len(printed) : printed[k].what \in {"report", "summary"}

\* ------------------------------------------------------------------ claims

\* C1: whatever the repository list, when GHORG_CONCURRENCY is a number
\* L >= 1, the closures that have started and not yet returned are never more
\* than L.
C1_AtMostLimitInFlight ==
  LET l == Atoi(env.GHORG_CONCURRENCY)
  IN  (l.ok /\ l.n >= 1) => Cardinality(InFlight) <= l.n

\* C1's case: L closures are running and the loop has a further target that
\* limit.Execute holds back.
C1_Witness ==
  LET l == Atoi(env.GHORG_CONCURRENCY)
  IN  /\ l.ok /\ l.n >= 1
      /\ pc = "submit"
      /\ submitted < Len(cloneTargets)
      /\ Cardinality(InFlight) = l.n
      /\ tickets = 0

\* C2: what a closure does and records is decided by the results of its own
\* calls alone: a call that failed is the closure's last, a message is built
\* only when the closure's own last call failed, and a closure that prints
\* Success had no failing call. Another closure's failing or succeeding
\* Clone, SetOrigin or FetchAll changes none of this.
C2_OwnResultsDecide ==
  \A i \in Jobs :
    /\ \A k \in 1..(Len(gitLog[i]) - 1) : gitLog[i][k].ok
    /\ e[i] # NoMessage =>
         Len(gitLog[i]) > 0 /\ ~ gitLog[i][Len(gitLog[i])].ok
    /\ "Success" \in Range(did[i]) => \A k \in 1..Len(gitLog[i]) : gitLog[i][k].ok

\* C3: once limit.Wait() has returned, cloneCount and pulledCount equal the
\* number of closures that executed the increment, and cloneInfos and
\* cloneErrors hold exactly one entry for every append a closure executed.
C3_NoLostUpdate ==
  Drained =>
    /\ cloneCount = Cardinality({i \in Jobs : "cloneCount++" \in Range(did[i])})
    /\ pulledCount = Cardinality({i \in Jobs : "pulledCount++" \in Range(did[i])})
    /\ Len(cloneInfos) = Cardinality({i \in Jobs : "cloneInfos" \in Range(did[i])})
    /\ Len(cloneErrors) = Cardinality({i \in Jobs : "cloneErrors" \in Range(did[i])})
    /\ \A i \in Jobs :
         /\ "cloneInfos" \in Range(did[i]) => Count(cloneInfos, e[i]) = 1
         /\ "cloneErrors" \in Range(did[i]) => Count(cloneErrors, e[i]) = 1

\* The decision table's sequence of calls for target i, given what
\* repoExistsLocally told its closure.
TableSequence(i) ==
  LET fetchAll == IF env.GHORG_FETCH_ALL THEN <<"FetchAll">> ELSE <<>>
  IN  IF "!repoExistsLocally" \in Range(did[i])
        THEN <<"Clone">>
               \o (IF env.GHORG_BRANCH # <<>> THEN <<"Checkout">> ELSE <<>>)
               \o <<"SetOrigin">> \o fetchAll
      ELSE IF env.GHORG_BACKUP THEN <<"UpdateRemote">>
      ELSE IF env.GHORG_NO_CLEAN THEN <<"FetchAll">>
      ELSE <<"Checkout", "Clean", "Reset", "Pull">> \o fetchAll

\* C4: the calls of a closure follow the decision table: they are always a
\* prefix of the table's sequence, they are the whole sequence once the
\* closure has returned in a run where every call succeeded, and no call is
\* made after a call of the same closure that did not succeed.
C4_DecisionTable ==
  \A i \in Jobs :
    /\ jpc[i] \notin {"idle", "resolve"} => IsPrefix(Ops(i), TableSequence(i))
    /\ (jpc[i] = "done" /\ \A j \in Jobs : \A k \in 1..Len(gitLog[j]) : gitLog[j][k].ok)
         => Ops(i) = TableSequence(i)
    /\ \A k \in 1..(Len(gitLog[i]) - 1) : gitLog[i][k].ok

\* C5: a wiki target's closure never appends to cloneErrors, and when one of
\* its calls failed it returns having appended to cloneInfos.
C5_WikiFailuresAreInformational ==
  \A i \in Targets :
    cloneTargets[i].IsWiki =>
      /\ jpc[i] \notin {"cloneErrors", "cloneErrors="}
      /\ "cloneErrors" \notin Range(did[i])
      /\ (jpc[i] = "done" /\ \E k \in 1..Len(gitLog[i]) : ~ gitLog[i][k].ok)
           => "cloneInfos" \in Range(did[i])

\* C6: a failing Checkout, after a clone or in an existing repository, of a
\* wiki or not, is the closure's last call; the closure then appends one
\* message to cloneInfos, nothing to cloneErrors, and returns without
\* printing Success.
C6_CheckoutFailureIsInformational ==
  \A i \in Jobs :
    Failed(i, "Checkout") =>
      /\ gitLog[i][Len(gitLog[i])] = [op |-> "Checkout", ok |-> FALSE]
      /\ jpc[i] \in {"cloneInfos", "cloneInfos=", "done"}
      /\ e[i] = [URL |-> cloneTargets[i].URL, text |-> "Could not checkout"]
      /\ "cloneErrors" \notin Range(did[i])
      /\ "Success" \notin Range(did[i])
      /\ Count(did[i], "cloneInfos") = (IF jpc[i] = "done" THEN 1 ELSE 0)

\* C6's case: the closure of a code repository has returned after its
\* Checkout failed in the existing repository, and its message is in
\* cloneInfos.
C6_Witness ==
  \E i \in Targets :
    /\ ~ cloneTargets[i].IsWiki
    /\ jpc[i] = "done"
    /\ Ops(i) = <<"Checkout">>
    /\ Failed(i, "Checkout")
    /\ e[i] \in Range(cloneInfos)
    /\ cloneErrors = <<>>

\* C7: a failing call other than Checkout by a code repository's closure is
\* the closure's last call; the closure appends exactly one message to
\* cloneErrors and returns; and once limit.Wait() has returned every target's
\* closure has run to its end.
C7_ErrorEndsOnlyItsDescriptor ==
  /\ \A i \in Targets :
       \A k \in 1..Len(gitLog[i]) :
         (~ cloneTargets[i].IsWiki /\ ~ gitLog[i][k].ok
            /\ gitLog[i][k].op # "Checkout") =>
           /\ k = Len(gitLog[i])
           /\ "Success" \notin Range(did[i])
           /\ "cloneInfos" \notin Range(did[i])
           /\ jpc[i] = "done" => Count(did[i], "cloneErrors") = 1
  /\ Drained => \A i \in Targets : jpc[i] = "done"

\* C8: once limit.Wait() has returned, cloneCount + pulledCount + the number
\* of messages recorded equals the number of code repositories among the
\* targets. It is stated here for the runs in which every closure is on a
\* clone or a pull path and every target is a code repository: the default
\* mode, no wiki among the targets.
C8_OneBucketEach ==
  (/\ Drained
   /\ ~ env.GHORG_BACKUP /\ ~ env.GHORG_NO_CLEAN
   /\ \A i \in Targets : ~ cloneTargets[i].IsWiki) =>
    cloneCount + pulledCount + Len(cloneInfos) + Len(cloneErrors)
      = getRepoCountOnly(cloneTargets)

\* C9: the Info/Issues report and the summary line are printed only when every
\* target's closure has returned: never while one is running or not started.
C9_ReportAfterDrain ==
  (pc \in {"report", "summary"} \/ Reported) =>
    \A i \in Targets : jpc[i] = "done"

\* C9's case: the report is out after a run in which the last closure could
\* start only when the one before it had returned.
C9_Witness ==
  /\ Reported
  /\ limit = 1
  /\ Len(cloneTargets) >= 2
  /\ \A i \in Targets : gitLog[i] # <<>>

\* C10: when the run ends fatally (log.Fatal, os.Exit(1) or a panic) no
\* directory has been created and no git.Gitter method has been called.
C10_FatalBeforeMutation ==
  exit \in {"fatal", "panic"} =>
    /\ mkdirAllCalls = 0
    /\ \A i \in Jobs : gitLog[i] = <<>>

\* C11: in a run that is not a dry run, a GHORG_CONCURRENCY that is not a
\* number, or is zero or negative, ends the run fatally at the limit's
\* validation: the loop over cloneTargets is never reached, no closure is
\* ever started, and the run does not end with success.
C11_ConcurrencyValidated ==
  LET l == Atoi(env.GHORG_CONCURRENCY)
  IN  (~ env.GHORG_DRY_RUN /\ ~ (l.ok /\ l.n >= 1)) =>
        /\ pc \notin {"submit", "wait", "report", "summary"}
        /\ \A i \in Jobs : jpc[i] = "idle"
        /\ exit # "ok"

\* C12: in a dry run, whatever the list, CloneAllRepos never calls
\* os.MkdirAll, never creates the limiter or starts a closure, calls no
\* method of git.Gitter, and leaves cloneCount, pulledCount, cloneInfos and
\* cloneErrors as they were.
C12_DryRunBypassesExecutor ==
  env.GHORG_DRY_RUN =>
    /\ mkdirAllCalls = 0
    /\ pc \notin {"atoi", "submit", "wait", "report", "summary"}
    /\ limit = 0 /\ submitted = 0
    /\ \A i \in Jobs : jpc[i] = "idle" /\ gitLog[i] = <<>>
    /\ cloneCount = 0 /\ pulledCount = 0
    /\ cloneInfos = <<>> /\ cloneErrors = <<>>

\* C12's case: a dry run over a list that is not empty has printed its
\* targets and returned, and the destination directory still does not exist.
C12_Witness ==
  /\ env.GHORG_DRY_RUN
  /\ pc = "exited" /\ exit = "ok"
  /\ Len(cloneTargets) >= 1
  /\ printed = <<[what |-> "dryrun", count |-> Len(cloneTargets)]>>
  /\ ~ PathExists(files, AbsolutePath)

\* C13: in every mode, once a closure has resolved repo.HostPath, the path of
\* a wiki ends in the wiki suffix, under GHORG_BACKUP as well, and no two
\* targets of the run have the same path.
C13_HostPathComposition ==
  \A i \in Targets :
    jpc[i] \notin {"idle", "resolve"} =>
      /\ cloneTargets[i].IsWiki => HasSuffix(hostPath[i], WikiSuffix)
      /\ \A j \in Targets :
           (j # i /\ jpc[j] \notin {"idle", "resolve"}) => hostPath[j] # hostPath[i]

\* C14: when the ghorgignore file can be read, then from the end of the
\* ghorgignore stage on cloneTargets holds no repository whose URL contains a
\* non-empty line of the file, it holds every repository handed to
\* CloneAllRepos that contains none (and passes GHORG_MATCH_REGEX when set),
\* in the order they were handed in, and closures, calls of git.Gitter and
\* messages exist for these targets only.
C14_IgnoredBeforeExecution ==
  LET ignored(d) == \E k \in 1..Len(ignoreFile.lines) :
                      /\ ignoreFile.lines[k] # <<>>
                      /\ Contains(d.URL, ignoreFile.lines[k])
      matched(d) == \/ env.GHORG_MATCH_REGEX = <<>>
                    \/ Contains(getAppNameFromURL(d.URL), env.GHORG_MATCH_REGEX)
      at(d)      == CHOOSE k \in 1..Len(provided) : provided[k] = d
  IN  (ignoreFile.state = "readable" /\ pc \notin {"regex", "ignore"}
         /\ exit # "panic") =>
        /\ \A i \in Targets :
             /\ ~ ignored(cloneTargets[i])
             /\ cloneTargets[i] \in Range(provided)
        /\ \A k \in 1..Len(provided) :
             (~ ignored(provided[k]) /\ matched(provided[k]))
               => provided[k] \in Range(cloneTargets)
        /\ \A i, j \in Targets :
             i < j => at(cloneTargets[i]) < at(cloneTargets[j])
        /\ \A i \in Jobs \ Targets : jpc[i] = "idle" /\ gitLog[i] = <<>>
        /\ \A m \in Range(cloneInfos) \cup Range(cloneErrors) :
             \E i \in Targets : m.URL = cloneTargets[i].URL

\* C14's case: of the two repositories handed in the wiki matches a line of
\* the ghorgignore file; the run has ended having called git.Gitter for the
\* code repository alone.
C14_Witness ==
  /\ ignoreFile.state = "readable"
  /\ env.GHORG_MATCH_REGEX = <<>>
  /\ Len(provided) = 2 /\ Len(cloneTargets) = 1
  /\ cloneTargets[1] = provided[1]
  /\ Reported
  /\ gitLog[1] # <<>> /\ gitLog[2] = <<>>

\* C15: in a run after the first, a target that an earlier run's git.Clone
\* succeeded for is found by repoExistsLocally: its closure never calls
\* git.Clone and never executes cloneCount++, its calls are those of the
\* existing-repository branch of the mode, and cloneCount never exceeds the
\* number of targets no earlier run cloned.
C15_SecondRunDoesNotClone ==
  run > 1 =>
    /\ \A i \in Targets :
         (cloneTargets[i].URL \in previous /\ jpc[i] \notin {"idle", "resolve"}) =>
           /\ did[i][1] = "repoExistsLocally"
           /\ \A k \in 1..Len(gitLog[i]) : gitLog[i][k].op # "Clone"
           /\ "cloneCount++" \notin Range(did[i])
           /\ IsPrefix(Ops(i),
                 IF env.GHORG_BACKUP THEN <<"UpdateRemote">>
                 ELSE IF env.GHORG_NO_CLEAN THEN <<"FetchAll">>
                 ELSE IF env.GHORG_FETCH_ALL
                   THEN <<"Checkout", "Clean", "Reset", "Pull", "FetchAll">>
                 ELSE <<"Checkout", "Clean", "Reset", "Pull">>)
    /\ cloneCount <= Cardinality({i \in Targets : cloneTargets[i].URL \notin previous})

\* C15's case: the second run in the default mode has ended; the first run
\* cloned the code repository, the second has checked out, cleaned, reset and
\* pulled it and counts it as pulled, not as cloned.
C15_Witness ==
  /\ run = 2
  /\ ~ env.GHORG_BACKUP /\ ~ env.GHORG_NO_CLEAN /\ ~ env.GHORG_FETCH_ALL
  /\ Reported
  /\ \E i \in Targets :
       /\ cloneTargets[i].URL \in previous
       /\ jpc[i] = "done"
       /\ Ops(i) = <<"Checkout", "Clean", "Reset", "Pull">>
       /\ "Success" \in Range(did[i])
  /\ cloneCount = 0
  /\ pulledCount >= 1

\* C16, as claimed: whatever the limit, when a call of git.Gitter of one
\* closure never returns, the hung closure holds one ticket and no more, and
\* every other target's closure is eventually started and returns.
C16_HangConfinedToOneSlot ==
  /\ []((\E i \in Jobs : jpc[i] = "hung") =>
          tickets + waited + Cardinality(InFlight) = limit)
  /\ \A j \in Jobs :
       ((\E i \in Jobs \ {j} : jpc[i] = "hung") /\ j \in Targets)
         ~> (jpc[j] = "done")

\* C16, amended: the same when the limiter has more than one ticket. With a
\* limit of 1 the hung closure holds the only ticket.
C16_HangConfinedToOneSlotOfSeveral ==
  /\ []((\E i \in Jobs : jpc[i] = "hung") =>
          tickets + waited + Cardinality(InFlight) = limit)
  /\ \A j \in Jobs :
       ((\E i \in Jobs \ {j} : jpc[i] = "hung") /\ j \in Targets /\ limit > 1)
         ~> (jpc[j] = "done")

\* C16's case: with two tickets the first target's closure hangs in a call,
\* the second target's closure has made its calls and returned, and
\* limit.Wait() is waiting for the ticket of the hung one.
C16_Witness ==
  /\ limit = 2
  /\ Len(cloneTargets) >= 2
  /\ jpc[1] = "hung"
  /\ jpc[2] = "done" /\ gitLog[2] # <<>>
  /\ pc = "wait"
  /\ tickets + waited + Cardinality(InFlight) = limit

\* C17: under fair scheduling and with every call of git.Gitter returning,
\* a run that has reached the loop over cloneTargets ends: every target's
\* closure returns, the summary line is printed and CloneAllRepos returns
\* with success, whatever the messages in cloneInfos and cloneErrors.
C17_RunCompletes ==
  (pc = "submit") ~>
    (/\ pc = "exited" /\ exit = "ok"
     /\ \A i \in Targets : jpc[i] = "done"
     /\ \E k \in 1..Len(printed) : printed[k].what = "summary")

\* C17's case: a run of two targets has ended with success and the summary
\* printed although a closure recorded an error.
C17_Witness ==
  /\ pc = "exited" /\ exit = "ok"
  /\ Len(cloneTargets) >= 2
  /\ \A i \in Targets : jpc[i] = "done"
  /\ cloneErrors # <<>>
  /\ \E k \in 1..Len(printed) : printed[k].what = "summary"

\* C18: the loop hands the targets to limit.Execute in the order of the list,
\* each once: the closures started are those of the first `submitted`
\* targets, a closure resolves its path once, the path and the URL of its
\* message are those of its own target, and when limit.Wait() has returned
\* every target's closure has run.
C18_EachTargetOnce ==
  /\ submitted <= Len(cloneTargets)
  /\ \A i \in Jobs :
       /\ jpc[i] # "idle" <=> i <= submitted
       /\ Count(did[i], "repoExistsLocally") + Count(did[i], "!repoExistsLocally")
            = (IF jpc[i] \in {"idle", "resolve"} THEN 0 ELSE 1)
       /\ jpc[i] \notin {"idle", "resolve"} =>
            hostPath[i] = HostPathOf[cloneTargets[i],
                                     env.GHORG_PRESERVE_DIRECTORY_STRUCTURE,
                                     env.GHORG_BACKUP]
       /\ e[i] # NoMessage => e[i].URL = cloneTargets[i].URL
  /\ Drained => \A i \in Targets : jpc[i] = "done"

\* C18's case: two targets ran two at a time, each on its own path, and both
\* closures have returned.
C18_Witness ==
  /\ Drained
  /\ limit = 2
  /\ Len(cloneTargets) = 2
  /\ \A i \in Targets : jpc[i] = "done" /\ gitLog[i] # <<>>
  /\ hostPath[1] # hostPath[2]
  /\ e[1] # NoMessage /\ e[2] # NoMessage /\ e[1].URL # e[2].URL

\* C19: a closure appends at most one message to cloneInfos and cloneErrors
\* together; the append is its last statement, so it has returned once the
\* append is done; and a closure that has returned has appended a message
\* exactly when it did not print Success.
C19_OneMessageOrSuccess ==
  \A i \in Jobs :
    LET appends == Count(did[i], "cloneInfos") + Count(did[i], "cloneErrors")
    IN  /\ appends <= 1
        /\ appends = 1 => jpc[i] = "done" /\ did[i][Len(did[i])] \in {"cloneInfos", "cloneErrors"}
        /\ Count(did[i], "Success") <= 1
        /\ jpc[i] = "done" => (appends = 1 <=> "Success" \notin Range(did[i]))

\* C19's case: of two closures that have returned, one appended a message and
\* did not print Success, the other printed Success and appended nothing.
C19_Witness ==
  /\ Drained
  /\ Len(cloneTargets) = 2
  /\ jpc[1] = "done" /\ jpc[2] = "done"
  /\ "cloneErrors" \in Range(did[1]) /\ "Success" \notin Range(did[1])
  /\ "Success" \in Range(did[2])
  /\ "cloneInfos" \notin Range(did[2]) /\ "cloneErrors" \notin Range(did[2])

\* C20: in every state cloneCount is at most the number of targets whose
\* closure found no HostPath and whose git.Clone has returned, pulledCount is
\* at most the number of targets whose closure found its HostPath, and
\* pulledCount is 0 under GHORG_BACKUP and under GHORG_NO_CLEAN, whatever
\* UpdateRemote and FetchAll return.
C20_CountersBounded ==
  /\ cloneCount <= Cardinality({i \in Targets :
         /\ "!repoExistsLocally" \in Range(did[i])
         /\ \E k \in 1..Len(gitLog[i]) : gitLog[i][k].op = "Clone"})
  /\ pulledCount <= Cardinality({i \in Targets : "repoExistsLocally" \in Range(did[i])})
  /\ (env.GHORG_BACKUP \/ env.GHORG_NO_CLEAN) => pulledCount = 0

\* C20's case: a backup run over two existing destinations has ended, both
\* UpdateRemote calls succeeded, and nothing was counted.
C20_Witness ==
  /\ env.GHORG_BACKUP
  /\ Drained
  /\ Len(cloneTargets) = 2
  /\ \A i \in Targets :
       /\ "repoExistsLocally" \in Range(did[i])
       /\ gitLog[i] = <<[op |-> "UpdateRemote", ok |-> TRUE]>>
       /\ "Success" \in Range(did[i])
  /\ pulledCount = 0 /\ cloneCount = 0

====
